---- MODULE Spec2Model ----
(***************************************************************************)
(* Voice dialogue turn controller of the Slapy chat client.                *)
(*                                                                         *)
(*   client/src/pages/slapy-chat.tsx            page: echo guard, voice    *)
(*                                              command handler, cooldown  *)
(*   client/src/hooks/use-text-to-speech.ts     synthesis dispatcher       *)
(*   client/src/hooks/use-speech-recognition.ts recognition session        *)
(*                                                                         *)
(* A text is a sequence of characters; a character is a one-character      *)
(* string.  Confidences are counted in tenths (6 stands for 0.6).          *)
(***************************************************************************)
EXTENDS Integers, Sequences, FiniteSets, TLC

(***************************************************************************)
(* Characters.  One representative per class the regular expressions of    *)
(* normalizeText tell apart.                                               *)
(***************************************************************************)
\* \w of a JavaScript regular expression without the u flag: [A-Za-z0-9_]
WordChars == {"a", "b", "B"}

\* \s : the blank and the other white space
SpaceChars == {" ", "\t"}

\* neither \w nor \s: punctuation, and letters outside ASCII
OtherChars == {"!", "é"}

Alphabet == WordChars \cup SpaceChars \cup OtherChars

\* the further letters, all of \w, of which the wake words are made
WakeLetters == {"s", "S", "l", "a", "p", "y", "o", "k"}

\* String.prototype.toLowerCase, one character
LowerChar(c) == IF c = "B" THEN "b" ELSE IF c = "S" THEN "s" ELSE c

(***************************************************************************)
(* String primitives of the platform, as they compute.                     *)
(***************************************************************************)
Min(a, b) == IF a < b THEN a ELSE b

\* s.toLowerCase()
ToLowerCase(s) == [i \in 1..Len(s) |-> LowerChar(s[i])]

\* s.replace(/[^\w\s]/g, '')
StripNonWord(s) == SelectSeq(s, LAMBDA c : c \in WordChars \/ c \in SpaceChars)

\* s.replace(/\s+/g, ' ') : every maximal run of white space becomes one blank
RECURSIVE CollapseSpaces(_)
CollapseSpaces(s) ==
    IF s = << >> THEN << >>
    ELSE IF s[1] \in SpaceChars
         THEN IF Len(s) > 1 /\ s[2] \in SpaceChars
              THEN CollapseSpaces(Tail(s))
              ELSE <<" ">> \o CollapseSpaces(Tail(s))
         ELSE <<s[1]>> \o CollapseSpaces(Tail(s))

\* s.trim()
RECURSIVE TrimLeft(_)
TrimLeft(s) ==
    IF s # << >> /\ s[1] \in SpaceChars THEN TrimLeft(Tail(s)) ELSE s

RECURSIVE TrimRight(_)
TrimRight(s) ==
    IF s # << >> /\ s[Len(s)] \in SpaceChars
    THEN TrimRight(SubSeq(s, 1, Len(s) - 1))
    ELSE s

Trim(s) == TrimRight(TrimLeft(s))

\* s.startsWith(p)
StartsWith(s, p) == Len(p) <= Len(s) /\ SubSeq(s, 1, Len(p)) = p

\* s.includes(t)
Includes(s, t) ==
    \E i \in 0..(Len(s) - Len(t)) : SubSeq(s, i + 1, i + Len(t)) = t

\* s.substring(0, n)
Substring0(s, n) == SubSeq(s, 1, Min(n, Len(s)))

(***************************************************************************)
(* The echo guard of the page.                                             *)
(***************************************************************************)
\* the length a normalized transcript must exceed for the prefix test
EchoMinLen == 10

\* the number of leading characters of the transcript the prefix test takes
EchoPrefixLen == 20

\* normalizeText without the toLowerCase call
normalizeText_KeepCase(text) == Trim(CollapseSpaces(StripNonWord(text)))

normalizeText(text) == Trim(CollapseSpaces(StripNonWord(ToLowerCase(text))))

\* isSimilarToLastResponse that also answers false for a transcript that
\* normalizes to the empty string
isSimilar_EmptyTranscriptGuard(transcript, last) ==
    IF last = << >> \/ Trim(CollapseSpaces(StripNonWord(ToLowerCase(transcript)))) = << >>
    THEN FALSE
    ELSE LET normalizedTranscript == Trim(CollapseSpaces(StripNonWord(ToLowerCase(transcript))))
             normalizedLastResponse == Trim(CollapseSpaces(StripNonWord(ToLowerCase(last))))
         IN  \/ Includes(normalizedLastResponse, normalizedTranscript)
             \/ Includes(normalizedTranscript, normalizedLastResponse)
             \/ /\ Len(normalizedTranscript) > 10
                /\ StartsWith(normalizedLastResponse,
                              Substring0(normalizedTranscript, 20))

\* isSimilarToLastResponse taking the transcript's first EchoMinLen characters
\* for the prefix test
isSimilar_ShortPrefix(transcript, last) ==
    IF last = << >> THEN FALSE
    ELSE LET normalizedTranscript == Trim(CollapseSpaces(StripNonWord(ToLowerCase(transcript))))
             normalizedLastResponse == Trim(CollapseSpaces(StripNonWord(ToLowerCase(last))))
         IN  \/ Includes(normalizedLastResponse, normalizedTranscript)
             \/ Includes(normalizedTranscript, normalizedLastResponse)
             \/ /\ Len(normalizedTranscript) > 10
                /\ StartsWith(normalizedLastResponse,
                              Substring0(normalizedTranscript, 10))

\* isSimilarToLastResponse(transcript), with the value of lastAIResponseRef
\* it reads passed as last
isSimilarToLastResponse(transcript, last) ==
    IF last = << >> THEN FALSE
    ELSE LET normalizedTranscript == normalizeText(transcript)
             normalizedLastResponse == normalizeText(last)
         IN  \/ Includes(normalizedLastResponse, normalizedTranscript)
             \/ Includes(normalizedTranscript, normalizedLastResponse)
             \/ /\ Len(normalizedTranscript) > EchoMinLen
                /\ StartsWith(normalizedLastResponse,
                              Substring0(normalizedTranscript, EchoPrefixLen))

(***************************************************************************)
(* Inputs of the echo guard.                                               *)
(***************************************************************************)
\* every text of at most this many characters is an input
MaxShortLen == 2

RECURSIVE SeqsUpTo(_, _)
SeqsUpTo(S, n) ==
    IF n = 0 THEN {<< >>}
    ELSE LET shorter == SeqsUpTo(S, n - 1)
         IN  shorter \cup {Append(s, c) : s \in shorter, c \in S}

ShortTexts == SeqsUpTo(Alphabet, MaxShortLen)

Rep(c, n) == [i \in 1..n |-> c]

\* texts around the two lengths the prefix test compares with: a run of one
\* letter, then nothing or one more character
LongLens == {EchoMinLen - 1, EchoMinLen, EchoMinLen + 1,
             EchoPrefixLen - 1, EchoPrefixLen, EchoPrefixLen + 1}

LongTexts == {Rep("a", n) \o t : n \in LongLens, t \in {<< >>, <<"b">>, <<"B">>, <<"!">>}}

EchoTexts == ShortTexts \cup LongTexts

(***************************************************************************)
(* Bounds of the model and the inputs of the page.                         *)
(***************************************************************************)
\* the synthesis dispatcher alone: speak calls and messages of one run
MaxSpeak == 2

MaxSends == 2

\* the recognition session alone: start() calls the platform accepts, result
\* events and pending visibility timers of one run
MaxStarts == 2

MaxResults == 1

MaxVisTimers == 1

\* the result handling of the session alone: start() calls the platform
\* accepts and result events of one run
ResultStarts == 2

ResultEvents == 2

\* the error handling of the session alone: start() calls the platform
\* accepts and pending visibility timers of one run
ErrorStarts == 2

ErrorVisTimers == 1

\* the whole page: one of each
AllSpeak == 1

AllSends == 1

AllStarts == 1

AllResults == 1

AllVisTimers == 1

\* the page with spoken commands: messages and commands of one run
VoiceSends == 2

VoiceCommands == 2

\* the replies of the backend: never empty (the server substitutes an apology)
Replies == {<<"a", "b">>, <<"b", "a", "b", "a">>}

\* what the user types or says
Messages == {<<"a", "b">>, <<" ">>}

\* what the recognition layer may hand to handleVoiceCommand
Commands == {<<"a", "b">>, <<"B", "a">>, <<"b", "b", "!">>, <<" ">>, << >>}

VARIABLES
    lastAIResponseRef,  \* slapy-chat.tsx: lastAIResponseRef.current
    echoArg,            \* the transcript of the latest isSimilarToLastResponse call
    echoResult,         \* what that call returned, in a sequence; << >> before any call
    \* useTextToSpeech
    isPlaying,          \* state isPlaying (the page's isTTSPlaying)
    currentAudio,       \* state currentAudio: the speak call that made it, 0 for null
    currentUtterance,   \* state currentUtterance: the speak call that made it, 0 for null
    calls,              \* the speak calls so far, each with its audio element and utterance
    \* SlappyChat
    suspended,          \* state suspended
    cooldownTimer,      \* the cooldown timer of the suspended effect is pending
    isListeningEnabled, \* state isListeningEnabled (the hook's continuous)
    isTTSEnabled,       \* state isTTSEnabled
    mutations,          \* every sendMessageMutation.mutate call so far
    \* useSpeechRecognition
    isListening,        \* state isListening
    transcript,         \* state transcript
    confidence,         \* state confidence, in tenths
    lastError,          \* state lastError; "null" for null
    recognitionRef,     \* recognitionRef.current: the phase of the current platform object
    detached,           \* platform objects of earlier effect runs that still have events to fire
    restartTimeoutRef,  \* the restart timer of restartTimeoutRef.current is pending
    visibility,         \* document.visibilityState
    visTimers,          \* pending timers of handleVisibilityChange
    starts,             \* start() calls accepted by the platform so far
    results,            \* the result events so far, each with the suspended of its time
    delivered,          \* the calls the hook made to the onResult of its caller
    wakeCalls,          \* the calls the hook made to the onWakeWord of its caller
    isSupported,        \* isSupported: the window has a SpeechRecognition constructor
    \* server: MemStorage and the webhook route
    messages,           \* storage.messages: the Map, its entries in insertion order
    requests,           \* the POST /api/webhook/slapy requests received so far
    now,                \* the clock new Date() reads
    \* history
    micOn,              \* the user's last word on the microphone button was "listen"
    voiceLog,           \* the handleVoiceCommand calls so far, each with the last reply of its time
    stopLog,            \* the stop() calls of useTextToSpeech so far, each with what it found
    uncaught,           \* where an exception left a handler or a promise of speak was rejected
    limits              \* the extent of the run explored, fixed from the start

tts == <<isPlaying, currentAudio, currentUtterance, calls>>
page == <<lastAIResponseRef, suspended, cooldownTimer, isListeningEnabled, isTTSEnabled, mutations>>
recog == <<isListening, transcript, confidence, lastError, recognitionRef, detached,
           restartTimeoutRef, visibility, visTimers, starts, results, delivered,
           wakeCalls, isSupported>>
echo == <<echoArg, echoResult>>
history == <<micOn, voiceLog, stopLog, uncaught>>
server == <<messages, requests, now>>

vars == <<tts, page, recog, echo, history, server, limits>>

\* the state as one record, for the handlers to transform
State ==
    [isPlaying |-> isPlaying, currentAudio |-> currentAudio,
     currentUtterance |-> currentUtterance, calls |-> calls,
     lastAIResponseRef |-> lastAIResponseRef, suspended |-> suspended,
     cooldownTimer |-> cooldownTimer, isListeningEnabled |-> isListeningEnabled,
     isTTSEnabled |-> isTTSEnabled, mutations |-> mutations,
     isListening |-> isListening, transcript |-> transcript,
     confidence |-> confidence, lastError |-> lastError,
     recognitionRef |-> recognitionRef, detached |-> detached,
     restartTimeoutRef |-> restartTimeoutRef, visibility |-> visibility,
     visTimers |-> visTimers, starts |-> starts, results |-> results,
     delivered |-> delivered, micOn |-> micOn, voiceLog |-> voiceLog,
     isSupported |-> isSupported, stopLog |-> stopLog, uncaught |-> uncaught,
     wakeCalls |-> wakeCalls]

Becomes(s) ==
    /\ isPlaying' = s.isPlaying
    /\ currentAudio' = s.currentAudio
    /\ currentUtterance' = s.currentUtterance
    /\ calls' = s.calls
    /\ lastAIResponseRef' = s.lastAIResponseRef
    /\ suspended' = s.suspended
    /\ cooldownTimer' = s.cooldownTimer
    /\ isListeningEnabled' = s.isListeningEnabled
    /\ isTTSEnabled' = s.isTTSEnabled
    /\ mutations' = s.mutations
    /\ isListening' = s.isListening
    /\ transcript' = s.transcript
    /\ confidence' = s.confidence
    /\ lastError' = s.lastError
    /\ recognitionRef' = s.recognitionRef
    /\ detached' = s.detached
    /\ restartTimeoutRef' = s.restartTimeoutRef
    /\ visibility' = s.visibility
    /\ visTimers' = s.visTimers
    /\ starts' = s.starts
    /\ results' = s.results
    /\ delivered' = s.delivered
    /\ micOn' = s.micOn
    /\ voiceLog' = s.voiceLog
    /\ isSupported' = s.isSupported
    /\ stopLog' = s.stopLog
    /\ uncaught' = s.uncaught
    /\ wakeCalls' = s.wakeCalls
    /\ limits' = limits
    /\ UNCHANGED <<echo, server>>

(***************************************************************************)
(* The platform's recognition object.  Its phases:                         *)
(*   idle       not started                                                *)
(*   starting   start() called, the start event not yet fired              *)
(*   listening  the start event fired: audio is captured                   *)
(*   stoppingS  stop() called while starting                               *)
(*   stoppingL  stop() called while listening: a last result may come      *)
(*   errored    the error event fired; the end event follows               *)
(* recognitionRef.current is null ("null") when no object was ever made.   *)
(***************************************************************************)
\* a stop() that the platform ignores
StopPhase_Ignored(p) == p

\* recognition.stop()
StopPhase(p) ==
    CASE p = "starting" -> "stoppingS"
      [] p = "listening" -> "stoppingL"
      [] OTHER -> p

(***************************************************************************)
(* A render of SlappyChat and the effects it runs.  A handler's state      *)
(* updates are committed, and the effects run, before the next event is    *)
(* handled; prev is the state the previous render saw.                     *)
(***************************************************************************)
\* the React state of the page and of its two hooks
ReactState(s) ==
    <<s.isPlaying, s.currentAudio, s.currentUtterance, s.suspended,
      s.isListeningEnabled, s.isTTSEnabled, s.isListening, s.transcript,
      s.confidence, s.lastError>>

\* the effect on [isTTSPlaying] without its cleanup
SuspendedEffect_KeepsTimer(prev, s) ==
    IF s.isPlaying = prev.isPlaying THEN s
    ELSE IF s.isPlaying
         THEN [s EXCEPT !.suspended = TRUE]
         ELSE [s EXCEPT !.cooldownTimer = TRUE]

\* the effect on [isTTSPlaying]: its cleanup clears the cooldown timer the
\* run with isTTSPlaying false armed
SuspendedEffect(prev, s) ==
    IF s.isPlaying = prev.isPlaying THEN s
    ELSE IF s.isPlaying
         THEN [s EXCEPT !.cooldownTimer = FALSE, !.suspended = TRUE]
         ELSE [s EXCEPT !.cooldownTimer = TRUE]

\* the effect of useSpeechRecognition without its test of isSupported
RecognitionEffect_NoGuard(prev, s) ==
    LET stopped == IF s.recognitionRef = "null" THEN "idle" ELSE StopPhase(s.recognitionRef)
    IN  [s EXCEPT
           !.detached = IF stopped = "idle" THEN @
                        ELSE Append(@, [phase |-> stopped,
                                        continuous |-> prev.isListeningEnabled,
                                        lastError |-> prev.lastError]),
           !.recognitionRef = "idle",
           !.restartTimeoutRef = FALSE]

\* the effect of useSpeechRecognition.  checkForWakeWord is among its
\* dependencies, and that callback depends on wakeWords, whose default value
\* is a new array at every render: the effect runs after every render.  Its
\* cleanup stops the object of the previous run, whose handlers closed over
\* the continuous and lastError of prev, and clears the restart timer; its
\* body makes a new object.
RecognitionEffect(prev, s) ==
    IF ~s.isSupported THEN s
    ELSE LET stopped == StopPhase(s.recognitionRef)
         IN  [s EXCEPT
                !.detached = IF stopped = "idle" THEN @
                             ELSE Append(@, [phase |-> stopped,
                                             continuous |-> prev.isListeningEnabled,
                                             lastError |-> prev.lastError]),
                !.recognitionRef = "idle",
                !.restartTimeoutRef = FALSE]

\* stopListening()
StopListeningCall(s) ==
    [s EXCEPT !.recognitionRef = StopPhase(@), !.restartTimeoutRef = FALSE]

\* the effect on [isListeningEnabled, isListening, stopListening]
StopOnDisableEffect(prev, s) ==
    IF /\ <<s.isListeningEnabled, s.isListening>> # <<prev.isListeningEnabled, prev.isListening>>
       /\ ~s.isListeningEnabled
       /\ s.isListening
    THEN StopListeningCall(s)
    ELSE s

\* the effects in the order of the hooks of SlappyChat.  The second render
\* that setSuspended(true) asks for changes nothing more: it replaces the
\* fresh recognition object by another.
RunEffects(prev, s) ==
    StopOnDisableEffect(prev, RecognitionEffect(prev, SuspendedEffect(prev, s)))

\* the state after a handler turned prev into s: a render only if React
\* state changed
Render(prev, s) ==
    IF ReactState(s) = ReactState(prev) THEN s ELSE RunEffects(prev, s)

(***************************************************************************)
(* useTextToSpeech.  A speak call is a record                              *)
(*   phase   gen      awaiting generateSpeech                              *)
(*           play     awaiting audio.play()                                *)
(*           browser  awaiting the promise of speakWithBrowser             *)
(*           done     returned                                             *)
(*   utteranceSeen  the currentUtterance its speakWithBrowser closed over  *)
(*   audio   none, starting (play() pending), aborted (paused while        *)
(*           play() pending), playing, paused, ended, failed               *)
(*   utterance  none, queued, speaking, cancelled (cancel() reached it:    *)
(*           its error event is due), ended                                *)
(***************************************************************************)
CallIds(s) == 1..Len(s.calls)

\* audio.pause() and currentTime = 0
PauseAudio(a) ==
    CASE a = "playing" -> "paused"
      [] a = "starting" -> "aborted"
      [] OTHER -> a

\* speechSynthesis.cancel(): the queue is emptied, the utterance being spoken
\* ceases; each gets its error event
CancelAll(cs) ==
    [i \in 1..Len(cs) |->
        IF cs[i].utterance \in {"queued", "speaking"}
        THEN [cs[i] EXCEPT !.utterance = "cancelled"]
        ELSE cs[i]]

\* the streams one can hear
Audible(cs) ==
    {<<"audio", i>> : i \in {j \in 1..Len(cs) : cs[j].audio = "playing"}}
    \cup {<<"utterance", i>> : i \in {j \in 1..Len(cs) : cs[j].utterance = "speaking"}}

\* speak(text) up to its first await
SpeakCall(s) ==
    LET paused == IF s.currentAudio # 0
                  THEN [s.calls EXCEPT ![s.currentAudio].audio = PauseAudio(@)]
                  ELSE s.calls
        cancelled == IF s.currentUtterance # 0 THEN CancelAll(paused) ELSE paused
    IN  [s EXCEPT
           !.isPlaying = TRUE,
           !.calls = Append(cancelled, [phase |-> "gen",
                                        utteranceSeen |-> s.currentUtterance,
                                        audio |-> "none",
                                        utterance |-> "none"])]

\* speakWithBrowser(text) of call i: the utterance is spoken at once when the
\* synthesizer is free, queued behind the one being spoken otherwise
SpeakWithBrowser(s, i) ==
    LET cancelled == IF s.calls[i].utteranceSeen # 0 THEN CancelAll(s.calls) ELSE s.calls
        busy == \E j \in 1..Len(cancelled) : cancelled[j].utterance = "speaking"
    IN  [s EXCEPT
           !.currentUtterance = i,
           !.calls = [cancelled EXCEPT ![i].phase = "browser",
                                       ![i].utterance = IF busy THEN "queued" ELSE "speaking"]]

\* the synthesizer takes the next utterance of its queue
NextUtterance(cs) ==
    IF \E j \in 1..Len(cs) : cs[j].utterance = "queued"
    THEN LET j == CHOOSE k \in 1..Len(cs) :
                      /\ cs[k].utterance = "queued"
                      /\ \A m \in 1..(k - 1) : cs[m].utterance # "queued"
         IN  [cs EXCEPT ![j].utterance = "speaking"]
    ELSE cs

(***************************************************************************)
(* Initial state: the page is mounted, its effects have run once.          *)
(***************************************************************************)
\* what mounting the page leaves in everything but the last reply, in a
\* window with or without the recognition capability: without it the effect
\* of useSpeechRecognition returns before it makes an object.  With enabled,
\* the state once the switch of continuous listening has been turned on and
\* the page has rendered.  The server has started: its storage is empty.
MountedWith(supported, enabled) ==
    /\ echoResult = << >>
    /\ isPlaying = FALSE
    /\ currentAudio = 0
    /\ currentUtterance = 0
    /\ calls = << >>
    /\ suspended = FALSE
    /\ cooldownTimer = TRUE
    /\ isListeningEnabled = enabled
    /\ isTTSEnabled = FALSE
    /\ mutations = << >>
    /\ isListening = FALSE
    /\ transcript = << >>
    /\ confidence = 0
    /\ lastError = "null"
    /\ isSupported = supported
    /\ recognitionRef = (IF supported THEN "idle" ELSE "null")
    /\ detached = << >>
    /\ restartTimeoutRef = FALSE
    /\ visibility = "visible"
    /\ visTimers = 0
    /\ starts = 0
    /\ results = << >>
    /\ delivered = << >>
    /\ micOn = FALSE
    /\ voiceLog = << >>
    /\ stopLog = << >>
    /\ uncaught = {}
    /\ wakeCalls = << >>
    /\ messages = << >>
    /\ requests = << >>
    /\ now = 0

MountedAs(supported) == MountedWith(supported, FALSE)

MountedRest == MountedAs(TRUE)

Mounted ==
    /\ lastAIResponseRef = << >>
    /\ echoArg = << >>
    /\ MountedRest

Limits(speak, sends, nstarts, nresults, timers, commands, stops) ==
    [speak |-> speak, sends |-> sends, starts |-> nstarts, results |-> nresults,
     timers |-> timers, commands |-> commands, stops |-> stops]

\* the run is within its extent
Within ==
    /\ Len(calls) <= limits.speak
    /\ Len(mutations) <= limits.sends
    /\ starts <= limits.starts
    /\ Len(results) <= limits.results
    /\ visTimers <= limits.timers
    /\ Len(voiceLog) <= limits.commands
    /\ Len(stopLog) <= limits.stops

Init ==
    /\ Mounted
    /\ limits = Limits(AllSpeak, AllSends, AllStarts, AllResults, AllVisTimers, 0, 0)

(***************************************************************************)
(* The page: settings, sending, the reply.                                 *)
(***************************************************************************)
\* the switch "Escuta Continua"
ToggleListeningEnabled ==
    Becomes(Render(State, [State EXCEPT !.isListeningEnabled = ~@,
                                        !.micOn = @ /\ ~isListeningEnabled]))

\* the switch "Sintese de Voz"
ToggleTTSEnabled ==
    Becomes(Render(State, [State EXCEPT !.isTTSEnabled = ~@]))

\* sendMessageMutation.mutate: the mutation's state changes, so the page renders
Mutate(s, message, inputType) ==
    RunEffects(s, [s EXCEPT !.mutations = Append(@, [message |-> message,
                                                    inputType |-> inputType,
                                                    status |-> "pending",
                                                    reply |-> << >>])])

\* handleSendMessage, by the button or the Enter key
HandleSendMessage(message) ==
    /\ Trim(message) # << >>
    /\ Becomes(Mutate(State, Trim(message), "text"))
    /\ Within'

\* onSuccess of the mutation k, with the reply of the backend
MutationSuccess_SpeaksAlways(k, response) ==
    /\ k \in 1..Len(mutations)
    /\ mutations[k].status = "pending"
    /\ LET settled == [State EXCEPT !.mutations[k].status = "success",
                                    !.mutations[k].reply = response,
                                    !.lastAIResponseRef = response]
       IN  Becomes(RunEffects(State, SpeakCall(settled)))
    /\ Within'

MutationSuccess(k, response) ==
    /\ k \in 1..Len(mutations)
    /\ mutations[k].status = "pending"
    /\ LET settled == [State EXCEPT !.mutations[k].status = "success",
                                    !.mutations[k].reply = response,
                                    !.lastAIResponseRef = IF response # << >>
                                                          THEN response ELSE @]
           spoken == IF isTTSEnabled /\ response # << >>
                     THEN SpeakCall(settled) ELSE settled
       IN  Becomes(RunEffects(State, spoken))
    /\ Within'

MutationError_Retries(k) ==
    /\ k \in 1..Len(mutations)
    /\ mutations[k].status = "pending"
    /\ Becomes(Mutate([State EXCEPT !.mutations[k].status = "error"],
                      mutations[k].message, mutations[k].inputType))

\* onError of the mutation k
MutationError(k) ==
    /\ k \in 1..Len(mutations)
    /\ mutations[k].status = "pending"
    /\ Becomes(RunEffects(State, [State EXCEPT !.mutations[k].status = "error"]))

\* the cooldown timer fires
CooldownFire ==
    /\ cooldownTimer
    /\ Becomes(Render(State, [State EXCEPT !.cooldownTimer = FALSE, !.suspended = FALSE]))

(***************************************************************************)
(* useTextToSpeech: the continuations of speak and the media events.       *)
(***************************************************************************)
\* generateSpeech resolves: the audio element is made and play() is called
GenResolve(i) ==
    /\ i \in CallIds(State)
    /\ calls[i].phase = "gen"
    /\ Becomes(Render(State, [State EXCEPT !.currentAudio = i,
                                           !.calls[i].phase = "play",
                                           !.calls[i].audio = "starting"]))

\* generateSpeech rejects: the fallback
GenReject(i) ==
    /\ i \in CallIds(State)
    /\ calls[i].phase = "gen"
    /\ Becomes(Render(State, SpeakWithBrowser(State, i)))

\* audio.play() resolves: playback has begun, speak returns
PlayResolve(i) ==
    /\ i \in CallIds(State)
    /\ calls[i].phase = "play"
    /\ calls[i].audio = "starting"
    /\ Becomes([State EXCEPT !.calls[i].phase = "done", !.calls[i].audio = "playing"])

\* audio.play() rejects (not allowed, or paused before it began): the fallback
PlayReject(i) ==
    /\ i \in CallIds(State)
    /\ calls[i].phase = "play"
    /\ calls[i].audio \in {"starting", "aborted"}
    /\ Becomes(Render(State, SpeakWithBrowser([State EXCEPT !.calls[i].audio = "failed"], i)))

\* audio.onended without its call of setIsPlaying
AudioEnded_KeepsPlaying(i) ==
    /\ i \in CallIds(State)
    /\ calls[i].audio = "playing"
    /\ Becomes(Render(State, [State EXCEPT !.calls[i].audio = "ended",
                                           !.currentAudio = 0]))

\* audio.onended
AudioEnded(i) ==
    /\ i \in CallIds(State)
    /\ calls[i].audio = "playing"
    /\ Becomes(Render(State, [State EXCEPT !.calls[i].audio = "ended",
                                           !.isPlaying = FALSE,
                                           !.currentAudio = 0]))

\* audio.onerror
AudioError(i) ==
    /\ i \in CallIds(State)
    /\ calls[i].audio = "playing"
    /\ Becomes(Render(State, [State EXCEPT !.calls[i].audio = "failed",
                                           !.isPlaying = FALSE,
                                           !.currentAudio = 0]))

\* utterance.onend: the promise of speakWithBrowser resolves, speak returns
UtteranceEnd(i) ==
    /\ i \in CallIds(State)
    /\ calls[i].utterance = "speaking"
    /\ Becomes(Render(State, [State EXCEPT
                                !.calls = NextUtterance([@ EXCEPT ![i].utterance = "ended",
                                                                  ![i].phase = "done"]),
                                !.isPlaying = FALSE,
                                !.currentUtterance = 0]))

UtteranceError_KeepsPlaying(i) ==
    /\ i \in CallIds(State)
    /\ calls[i].utterance \in {"speaking", "cancelled"}
    /\ Becomes(Render(State, [State EXCEPT
                                !.calls = NextUtterance([@ EXCEPT ![i].utterance = "failed",
                                                                  ![i].phase = "done"]),
                                !.currentAudio = 0,
                                !.currentUtterance = 0]))

\* utterance.onerror with no catch in speak: its promise is rejected
UtteranceError_Rejects(i) ==
    /\ i \in CallIds(State)
    /\ calls[i].utterance \in {"speaking", "cancelled"}
    /\ Becomes(Render(State, [State EXCEPT
                                !.calls = NextUtterance([@ EXCEPT ![i].utterance = "failed",
                                                                  ![i].phase = "done"]),
                                !.isPlaying = FALSE,
                                !.currentUtterance = 0,
                                !.uncaught = @ \cup {"speak"}]))

\* utterance.onerror: the promise rejects, and the catch of speak clears the
\* audio too
UtteranceError(i) ==
    /\ i \in CallIds(State)
    /\ calls[i].utterance \in {"speaking", "cancelled"}
    /\ Becomes(Render(State, [State EXCEPT
                                !.calls = NextUtterance([@ EXCEPT ![i].utterance = "failed",
                                                                  ![i].phase = "done"]),
                                !.isPlaying = FALSE,
                                !.currentAudio = 0,
                                !.currentUtterance = 0]))

\* the primary failed and speakWithBrowser throws before it speaks (no
\* synthesizer): its catch and the catch of speak
FallbackThrows(i) ==
    /\ i \in CallIds(State)
    /\ \/ calls[i].phase = "gen"
       \/ calls[i].phase = "play" /\ calls[i].audio \in {"starting", "aborted"}
    /\ LET cancelled == IF calls[i].utteranceSeen # 0 THEN CancelAll(calls) ELSE calls
       IN  Becomes(Render(State, [State EXCEPT
                                    !.calls = [cancelled EXCEPT
                                                 ![i].phase = "done",
                                                 ![i].utterance = "failed",
                                                 ![i].audio = IF @ = "none" THEN @ ELSE "failed"],
                                    !.isPlaying = FALSE,
                                    !.currentAudio = 0,
                                    !.currentUtterance = 0]))

\* stop() without its calls of setCurrentAudio and setCurrentUtterance
StopCall_KeepsHandles(s) ==
    LET paused == IF s.currentAudio # 0
                  THEN [s.calls EXCEPT ![s.currentAudio].audio = PauseAudio(@)]
                  ELSE s.calls
        cancelled == IF s.currentUtterance # 0 THEN CancelAll(paused) ELSE paused
    IN  [s EXCEPT !.calls = cancelled,
                  !.isPlaying = FALSE]

\* stop()
StopCall(s) ==
    LET paused == IF s.currentAudio # 0
                  THEN [s.calls EXCEPT ![s.currentAudio].audio = PauseAudio(@)]
                  ELSE s.calls
        cancelled == IF s.currentUtterance # 0 THEN CancelAll(paused) ELSE paused
    IN  [s EXCEPT !.calls = cancelled,
                  !.currentAudio = 0,
                  !.currentUtterance = 0,
                  !.isPlaying = FALSE]

\* what a stop() call finds: the speak calls awaiting generateSpeech, and
\* whether anything is held or announced as playing
Found(s) ==
    [pending |-> {i \in CallIds(s) : s.calls[i].phase = "gen"},
     active |-> s.currentAudio # 0 \/ s.currentUtterance # 0 \/ s.isPlaying]

\* a caller of the hook calls stop()
Stop ==
    /\ Becomes(Render(State, StopCall([State EXCEPT !.stopLog = Append(@, Found(State))])))
    /\ Within'

\* a caller of the hook calls speak(text)
Speak ==
    /\ Becomes(Render(State, SpeakCall(State)))
    /\ Within'

(***************************************************************************)
(* useSpeechRecognition: the handlers of a platform object, the timers,    *)
(* the two calls the hook returns.  Object 0 is recognitionRef.current,    *)
(* object k > 0 is detached[k].                                            *)
(***************************************************************************)
\* the error kinds of the platform the model draws from
ErrorKinds == {"no-speech", "not-allowed"}

\* the lastError values with which onend restarts
Restartable == {"null", "no-speech", "aborted"}

onResultGiven_Wired == TRUE

\* what the page passes as onResult and as onWakeWord: neither (it passes
\* onFinalText, suspended and minConfidence, which the hook does not read)
onResultGiven == FALSE

\* a result event: event.results from event.resultIndex on
ResultBatches ==
    { <<[transcript |-> <<"a", "b", "a", "b">>, confidence |-> 9, isFinal |-> TRUE]>>,
      <<[transcript |-> <<"a", "b", "a", "b">>, confidence |-> 5, isFinal |-> TRUE]>>,
      <<[transcript |-> <<" ", "a", "b", "a">>, confidence |-> 9, isFinal |-> TRUE]>>,
      <<[transcript |-> <<"a", "b", "a", "b">>, confidence |-> 0, isFinal |-> FALSE]>>,
      <<[transcript |-> <<"a", "b">>, confidence |-> 5, isFinal |-> TRUE],
        [transcript |-> <<"a", "b">>, confidence |-> 6, isFinal |-> TRUE]>> }

Objects(s) == 0..Len(s.detached)

PhaseOf(s, o) == IF o = 0 THEN s.recognitionRef ELSE s.detached[o].phase

\* the continuous and the lastError the handlers of object o closed over
ContinuousOf(s, o) == IF o = 0 THEN s.isListeningEnabled ELSE s.detached[o].continuous

LastErrorOf(s, o) == IF o = 0 THEN s.lastError ELSE s.detached[o].lastError

RemoveAt(q, k) == [i \in 1..(Len(q) - 1) |-> IF i < k THEN q[i] ELSE q[i + 1]]

\* a detached object that reached idle has no event left and is dropped
SetPhase(s, o, p) ==
    IF o = 0 THEN [s EXCEPT !.recognitionRef = p]
    ELSE IF p = "idle" THEN [s EXCEPT !.detached = RemoveAt(@, o)]
         ELSE [s EXCEPT !.detached[o].phase = p]

(***************************************************************************)
(* checkForWakeWord.                                                       *)
(***************************************************************************)
onWakeWordGiven_Wired == TRUE

\* whether the caller of the hook passes onWakeWord: the page does not
onWakeWordGiven == FALSE

\* the default of the wakeWords argument, which the page leaves alone
wakeWords == << <<"s", "l", "a", "p", "y">>,
                <<"o", "k", " ", "s", "l", "a", "p", "y">> >>

\* \b at position k of s, between s[k - 1] and s[k]
IsWordAt(s, k) == k \in 1..Len(s) /\ s[k] \in WordChars \cup WakeLetters

WordBoundary(s, k) == IsWordAt(s, k - 1) # IsWordAt(s, k)

\* s.indexOf(t), counted from 1; 0 where t does not occur
IndexOf(s, t) ==
    IF Includes(s, t)
    THEN CHOOSE i \in 1..(Len(s) - Len(t) + 1) :
            /\ SubSeq(s, i, i + Len(t) - 1) = t
            /\ \A j \in 1..(i - 1) : SubSeq(s, j, j + Len(t) - 1) # t
    ELSE 0

\* s.replace(new RegExp('\\b' + w + '\\b', 'gi'), ''), from position i on
RECURSIVE RemoveWord(_, _, _)
RemoveWord(s, w, i) ==
    IF i > Len(s) THEN << >>
    ELSE IF /\ i + Len(w) - 1 <= Len(s)
            /\ ToLowerCase(SubSeq(s, i, i + Len(w) - 1)) = w
            /\ WordBoundary(s, i)
            /\ WordBoundary(s, i + Len(w))
         THEN RemoveWord(s, w, i + Len(w))
         ELSE <<s[i]>> \o RemoveWord(s, w, i + 1)

\* the last element of s.split(w)
RECURSIVE LastPart(_, _)
LastPart(s, w) ==
    IF Includes(s, w)
    THEN LastPart(SubSeq(s, IndexOf(s, w) + Len(w), Len(s)), w)
    ELSE s

\* the alternatives of /\b(ok|hey|oi|olá)\s*/gi the alphabet can spell
Greetings == << <<"o", "k">>, <<"o", "i">> >>

GreetingAt(s, i) ==
    {g \in 1..Len(Greetings) :
        /\ i + Len(Greetings[g]) - 1 <= Len(s)
        /\ ToLowerCase(SubSeq(s, i, i + Len(Greetings[g]) - 1)) = Greetings[g]
        /\ WordBoundary(s, i)}

\* s.replace(/\b(ok|hey|oi|olá)\s*/gi, ''), from position i on
RECURSIVE RemoveGreetings(_, _)
RemoveGreetings(s, i) ==
    IF i > Len(s) THEN << >>
    ELSE IF GreetingAt(s, i) # {}
         THEN LET g == CHOOSE g \in GreetingAt(s, i) : TRUE
                  rest == SubSeq(s, i + Len(Greetings[g]), Len(s))
              IN  RemoveGreetings(s, Len(s) - Len(TrimLeft(rest)) + 1)
         ELSE <<s[i]>> \o RemoveGreetings(s, i + 1)

\* the wake words of the list that occur in the text, by their place in it
WakeWordsIn(text) ==
    {k \in 1..Len(wakeWords) : Includes(Trim(ToLowerCase(text)), wakeWords[k])}

\* the command the three strategies extract for the first wake word found
ExtractedCommand(text) ==
    LET lowercaseText == Trim(ToLowerCase(text))
        k == CHOOSE k \in WakeWordsIn(text) : \A j \in WakeWordsIn(text) : k <= j
        lowerWakeWord == ToLowerCase(wakeWords[k])
        byRegex == Trim(RemoveWord(text, lowerWakeWord, 1))
        bySplit == IF Len(byRegex) < 2 /\ Includes(ToLowerCase(text), lowerWakeWord)
                   THEN Trim(LastPart(ToLowerCase(text), lowerWakeWord))
                   ELSE byRegex
        byIndex == IF Len(bySplit) < 2
                   THEN Trim(SubSeq(text, IndexOf(lowercaseText, lowerWakeWord)
                                            + Len(lowerWakeWord), Len(text)))
                   ELSE bySplit
    IN  byIndex

CleanedText(text) ==
    Trim(RemoveWord(RemoveGreetings(ToLowerCase(text), 1),
                    <<"s", "l", "a", "p", "y">>, 1))

\* checkForWakeWord(text): the calls of onWakeWord it makes
checkForWakeWord(text) ==
    IF WakeWordsIn(text) # {} /\ onWakeWordGiven
    THEN IF ExtractedCommand(text) # << >>
         THEN <<[text |-> text, command |-> ExtractedCommand(text)]>>
         ELSE IF CleanedText(text) # << >>
              THEN <<[text |-> text, command |-> CleanedText(text)]>>
              ELSE << >>
    ELSE << >>

\* the calls of onWakeWord in one result event: for every final segment, and
\* for every interim segment of more than 4 characters
RECURSIVE WakeWordCallbacks(_)
WakeWordCallbacks(batch) ==
    IF batch = << >> THEN << >>
    ELSE (IF batch[1].isFinal \/ Len(Trim(batch[1].transcript)) > 4
          THEN checkForWakeWord(batch[1].transcript)
          ELSE << >>)
         \o WakeWordCallbacks(Tail(batch))

RECURSIVE FinalTranscript(_)
FinalTranscript(batch) ==
    IF batch = << >> THEN << >>
    ELSE (IF batch[1].isFinal THEN batch[1].transcript ELSE << >>)
         \o FinalTranscript(Tail(batch))

RECURSIVE InterimTranscript(_)
InterimTranscript(batch) ==
    IF batch = << >> THEN << >>
    ELSE (IF batch[1].isFinal THEN << >> ELSE batch[1].transcript)
         \o InterimTranscript(Tail(batch))

Max(a, b) == IF a > b THEN a ELSE b

\* the confidence of the last segment of the event, final or not
FinalConfidence_Last(batch) == batch[Len(batch)].confidence

RECURSIVE FinalConfidence(_)
FinalConfidence(batch) ==
    IF batch = << >> THEN 0
    ELSE Max(IF batch[1].isFinal THEN batch[1].confidence ELSE 0,
             FinalConfidence(Tail(batch)))

\* the calls onresult makes to the callbacks of the caller
ResultCallbacks(batch) ==
    IF onResultGiven
    THEN <<[transcript |-> FinalTranscript(batch) \o InterimTranscript(batch),
            confidence |-> batch[Len(batch)].confidence,
            isFinal |-> batch[Len(batch)].isFinal]>>
    ELSE << >>

\* recognition.start(): an object that is not idle throws "already started",
\* which both callers catch and ignore
StartCall(s) ==
    IF s.recognitionRef = "idle"
    THEN [s EXCEPT !.recognitionRef = "starting", !.starts = @ + 1]
    ELSE s

\* onstart without its call of setIsListening
OnStart_Silent(o) ==
    /\ o \in Objects(State)
    /\ PhaseOf(State, o) \in {"starting", "stoppingS"}
    /\ LET p == IF PhaseOf(State, o) = "starting" THEN "listening" ELSE "stoppingL"
       IN  Becomes(Render(State, [SetPhase(State, o, p) EXCEPT !.lastError = "null"]))

\* recognition.onstart
OnStart(o) ==
    /\ o \in Objects(State)
    /\ PhaseOf(State, o) \in {"starting", "stoppingS"}
    /\ LET p == IF PhaseOf(State, o) = "starting" THEN "listening" ELSE "stoppingL"
       IN  Becomes(Render(State, [SetPhase(State, o, p) EXCEPT !.isListening = TRUE,
                                                            !.lastError = "null"]))

\* recognition.onresult
OnResult(o, batch) ==
    /\ o \in Objects(State)
    /\ PhaseOf(State, o) \in {"listening", "stoppingL"}
    /\ Becomes(Render(State,
          [State EXCEPT
             !.transcript = FinalTranscript(batch) \o InterimTranscript(batch),
             !.confidence = FinalConfidence(batch),
             !.results = Append(@, [batch |-> batch, suspended |-> suspended]),
             !.delivered = @ \o ResultCallbacks(batch),
             !.wakeCalls = @ \o WakeWordCallbacks(batch)]))
    /\ Within'

OnError_Restarts(o, kind) ==
    /\ o \in Objects(State)
    /\ PhaseOf(State, o) \in {"starting", "listening", "stoppingS", "stoppingL"}
    /\ LET handled == Render(State, [SetPhase(State, o, "errored") EXCEPT
                                       !.lastError = kind,
                                       !.isListening = FALSE,
                                       !.restartTimeoutRef = FALSE])
       IN  Becomes(StartCall(handled))

\* recognition.onerror
OnError(o, kind) ==
    /\ o \in Objects(State)
    /\ PhaseOf(State, o) \in {"starting", "listening", "stoppingS", "stoppingL"}
    /\ Becomes(Render(State, [SetPhase(State, o, "errored") EXCEPT
                                !.lastError = kind,
                                !.isListening = FALSE,
                                !.restartTimeoutRef = FALSE]))

\* recognition.onend
OnEnd(o) ==
    /\ o \in Objects(State)
    /\ PhaseOf(State, o) \in {"listening", "stoppingS", "stoppingL", "errored"}
    /\ Becomes(Render(State, [SetPhase(State, o, "idle") EXCEPT
                                !.isListening = FALSE,
                                !.transcript = << >>,
                                !.restartTimeoutRef =
                                    /\ ContinuousOf(State, o)
                                    /\ LastErrorOf(State, o) \in Restartable]))

\* the restart timer of onend fires
RestartFire ==
    /\ restartTimeoutRef
    /\ Becomes(IF visibility = "visible"
               THEN StartCall([State EXCEPT !.restartTimeoutRef = FALSE])
               ELSE [State EXCEPT !.restartTimeoutRef = FALSE])
    /\ Within'

\* startListening, from handleToggleListening: the button is enabled with
\* isSupported and isListeningEnabled and starts when isListening is false
StartListening ==
    /\ isSupported
    /\ isListeningEnabled
    /\ ~isListening
    /\ Becomes(Render(State, StartCall([State EXCEPT !.lastError = "null", !.micOn = TRUE])))
    /\ Within'

\* stopListening, from handleToggleListening when isListening is true
StopListening ==
    /\ isSupported
    /\ isListeningEnabled
    /\ isListening
    /\ Becomes(StopListeningCall([State EXCEPT !.micOn = FALSE]))

\* visibilitychange to hidden
VisibilityHidden ==
    /\ visibility = "visible"
    /\ Becomes([State EXCEPT !.visibility = "hidden", !.recognitionRef = StopPhase(@)])

\* visibilitychange to visible: a timer that nothing cancels.  Without the
\* capability the effect has registered no listener.
VisibilityVisible ==
    /\ visibility = "hidden"
    /\ Becomes([State EXCEPT !.visibility = "visible",
                             !.visTimers = IF isSupported /\ isListeningEnabled /\ ~isListening
                                           THEN @ + 1 ELSE @])
    /\ Within'

\* the timer of handleVisibilityChange fires; the isListening it closed over
\* was false
VisTimerFire ==
    /\ visTimers > 0
    /\ Becomes(StartCall([State EXCEPT !.visTimers = @ - 1]))
    /\ Within'

\* startListening() called by a caller that looks neither at isSupported nor
\* at isListening
CallStartListening ==
    /\ Becomes(Render(State,
          IF recognitionRef # "null" /\ ~isListening
          THEN StartCall([State EXCEPT !.lastError = "null", !.micOn = TRUE])
          ELSE [State EXCEPT !.micOn = TRUE]))
    /\ Within'

\* stopListening() called by such a caller
CallStopListening ==
    Becomes(StopListeningCall([State EXCEPT !.micOn = FALSE]))

\* a key typed in the message box: setMessageInput, a render
InputChange ==
    Becomes(RunEffects(State, State))

VoiceCommand_NoEchoCheck(s, command) ==
    IF Trim(command) # << >> THEN Mutate(s, command, "voice") ELSE s

\* handleVoiceCommand(command)
VoiceCommand(s, command) ==
    IF Trim(command) # << >>
    THEN IF isSimilarToLastResponse(command, s.lastAIResponseRef)
         THEN s
         ELSE Mutate(s, command, "voice")
    ELSE s

\* the recognition layer calls the onFinalText it was given
HandleVoiceCommand(command) ==
    /\ Becomes(VoiceCommand([State EXCEPT !.voiceLog = Append(@, [command |-> command,
                                                              last |-> lastAIResponseRef])],
                         command))
    /\ Within'

NextTTS ==
    \E i \in 1..Len(calls) :
        \/ GenResolve(i) \/ GenReject(i) \/ PlayResolve(i) \/ PlayReject(i)
        \/ AudioEnded(i) \/ AudioError(i) \/ UtteranceEnd(i) \/ UtteranceError(i)
        \/ FallbackThrows(i)

NextSend ==
    \/ \E m \in Messages : HandleSendMessage(m)
    \/ \E k \in 1..Len(mutations) : \E r \in Replies : MutationSuccess(k, r)
    \/ \E k \in 1..Len(mutations) : MutationError(k)

NextRecognition ==
    \/ \E o \in 0..Len(detached) :
          \/ OnStart(o)
          \/ \E b \in ResultBatches : OnResult(o, b)
          \/ \E e \in ErrorKinds : OnError(o, e)
          \/ OnEnd(o)
    \/ RestartFire
    \/ StartListening
    \/ StopListening
    \/ VisibilityHidden
    \/ VisibilityVisible
    \/ VisTimerFire

(***************************************************************************)
(* The whole page, as the source wires it.                                 *)
(***************************************************************************)
Next ==
    \/ ToggleListeningEnabled
    \/ ToggleTTSEnabled
    \/ InputChange
    \/ CooldownFire
    \/ NextSend
    \/ NextTTS
    \/ NextRecognition

Spec == Init /\ [][Next]_vars

(***************************************************************************)
(* The synthesis dispatcher under the page, listening never enabled.       *)
(***************************************************************************)
InitSynthesis ==
    /\ Mounted
    /\ limits = Limits(MaxSpeak, MaxSends, 0, 0, 0, 0, 0)

NextSynthesis ==
    \/ ToggleTTSEnabled
    \/ CooldownFire
    \/ NextSend
    \/ NextTTS

SpecSynthesis == InitSynthesis /\ [][NextSynthesis]_vars

(***************************************************************************)
(* The recognition session under the page, no message sent.                *)
(***************************************************************************)
InitSession ==
    /\ Mounted
    /\ limits = Limits(0, 0, MaxStarts, MaxResults, MaxVisTimers, 0, 0)

NextSession ==
    \/ ToggleListeningEnabled
    \/ InputChange
    \/ NextRecognition

SpecSession == InitSession /\ [][NextSession]_vars

(***************************************************************************)
(* The recognition session with the page always visible: what its events   *)
(* forward.                                                                *)
(***************************************************************************)
InitResults ==
    /\ Mounted
    /\ limits = Limits(0, 0, ResultStarts, ResultEvents, 0, 0, 0)

NextResults ==
    \/ ToggleListeningEnabled
    \/ StartListening
    \/ StopListening
    \/ RestartFire
    \/ \E o \in 0..Len(detached) :
          \/ OnStart(o)
          \/ \E b \in ResultBatches : OnResult(o, b)
          \/ \E e \in ErrorKinds : OnError(o, e)
          \/ OnEnd(o)

SpecResults == InitResults /\ [][NextResults]_vars

(***************************************************************************)
(* One recognition session and the result events of the platform, of one   *)
(* or two segments each, final or interim, of any confidence.              *)
(***************************************************************************)
\* confidences in tenths: below and above the threshold
ConfidenceLevels == {5, 9}

MaxSegments == 2

ConfidenceEvents == 1

ConfidenceStarts == 1

Segments ==
    [transcript : {<<"a", "b">>}, confidence : ConfidenceLevels, isFinal : BOOLEAN]

ConfidenceBatches == UNION {[1..n -> Segments] : n \in 1..MaxSegments}

InitConfidence ==
    /\ Mounted
    /\ limits = Limits(0, 0, ConfidenceStarts, ConfidenceEvents, 0, 0, 0)

NextConfidence ==
    \/ ToggleListeningEnabled
    \/ StartListening
    \/ \E o \in 0..Len(detached) :
          \/ OnStart(o)
          \/ \E b \in ConfidenceBatches : OnResult(o, b)
          \/ OnEnd(o)

SpecConfidence == InitConfidence /\ [][NextConfidence]_vars

(***************************************************************************)
(* The page with both hooks at work: a reply is spoken while recognition   *)
(* is started, fails, ends and is restarted.                               *)
(***************************************************************************)
FaultSpeak == 1

FaultSends == 1

FaultStarts == 2

InitFaults ==
    /\ Mounted
    /\ limits = Limits(FaultSpeak, FaultSends, FaultStarts, 0, 0, 0, 0)

NextFaults ==
    \/ ToggleListeningEnabled
    \/ ToggleTTSEnabled
    \/ CooldownFire
    \/ NextSend
    \/ NextTTS
    \/ StartListening
    \/ RestartFire
    \/ \E o \in 0..Len(detached) :
          \/ OnStart(o)
          \/ \E e \in ErrorKinds : OnError(o, e)
          \/ OnEnd(o)

SpecFaults == InitFaults /\ [][NextFaults]_vars

(***************************************************************************)
(* The microphone button with continuous listening left enabled and the    *)
(* page visible: the user starts and stops by hand.                        *)
(***************************************************************************)
ButtonStarts == 2

InitButton ==
    /\ lastAIResponseRef = << >>
    /\ echoArg = << >>
    /\ MountedWith(TRUE, TRUE)
    /\ limits = Limits(0, 0, ButtonStarts, 0, 0, 0, 0)

NextButton ==
    \/ InputChange
    \/ StartListening
    \/ StopListening
    \/ RestartFire
    \/ \E o \in 0..Len(detached) :
          \/ OnStart(o)
          \/ \E e \in ErrorKinds : OnError(o, e)
          \/ OnEnd(o)

SpecButton == InitButton /\ [][NextButton]_vars

(***************************************************************************)
(* The recognition session without results: starts, errors, ends, timers.  *)
(***************************************************************************)
InitErrors ==
    /\ Mounted
    /\ limits = Limits(0, 0, ErrorStarts, 0, ErrorVisTimers, 0, 0)

NextErrors ==
    \/ ToggleListeningEnabled
    \/ StartListening
    \/ StopListening
    \/ RestartFire
    \/ VisibilityHidden
    \/ VisibilityVisible
    \/ VisTimerFire
    \/ \E o \in 0..Len(detached) :
          \/ OnStart(o)
          \/ \E e \in ErrorKinds : OnError(o, e)
          \/ OnEnd(o)

SpecErrors == InitErrors /\ [][NextErrors]_vars

(***************************************************************************)
(* The recognition session in a window with or without the capability,     *)
(* its two calls made by any caller.                                       *)
(***************************************************************************)
\* start() calls the platform accepts and pending visibility timers of one run
CapabilityStarts == 1

CapabilityVisTimers == 1

InitCapability ==
    /\ lastAIResponseRef = << >>
    /\ echoArg = << >>
    /\ \E supported \in BOOLEAN : MountedAs(supported)
    /\ limits = Limits(0, 0, CapabilityStarts, 0, CapabilityVisTimers, 0, 0)

NextCapability ==
    \/ ToggleListeningEnabled
    \/ InputChange
    \/ CallStartListening
    \/ CallStopListening
    \/ RestartFire
    \/ VisibilityHidden
    \/ VisibilityVisible
    \/ VisTimerFire
    \/ \E o \in 0..Len(detached) :
          \/ OnStart(o)
          \/ \E e \in ErrorKinds : OnError(o, e)
          \/ OnEnd(o)

SpecCapability == InitCapability /\ [][NextCapability]_vars

(***************************************************************************)
(* The synthesis dispatcher under the page, speak and stop called by any   *)
(* caller at any time.                                                     *)
(***************************************************************************)
\* speak calls and stop calls of one run
DispatcherSpeak == 2

DispatcherStops == 2

InitDispatcher ==
    /\ Mounted
    /\ limits = Limits(DispatcherSpeak, 0, 0, 0, 0, 0, DispatcherStops)

NextDispatcher ==
    \/ Speak
    \/ Stop
    \/ CooldownFire
    \/ NextTTS

SpecDispatcher == InitDispatcher /\ [][NextDispatcher]_vars

\* the same with every pending request and every playback completing or
\* failing, and the cooldown timer firing
LiveSpeak == 2

LiveStops == 1

InitDispatcherLive ==
    /\ Mounted
    /\ limits = Limits(LiveSpeak, 0, 0, 0, 0, 0, LiveStops)

SpecDispatcherLive ==
    InitDispatcherLive /\ [][NextDispatcher]_vars /\ WF_vars(NextTTS) /\ WF_vars(CooldownFire)

(***************************************************************************)
(* The page with the recognition layer replaced by its contract: it may    *)
(* call onFinalText with any text at any time.                             *)
(***************************************************************************)
InitVoice ==
    /\ Mounted
    /\ limits = Limits(0, VoiceSends, 0, 0, 0, VoiceCommands, 0)

NextVoice ==
    \/ \E c \in Commands : HandleVoiceCommand(c)
    \/ NextSend

SpecVoice == InitVoice /\ [][NextVoice]_vars

(***************************************************************************)
(* The echo guard alone: any last reply, any transcript.                   *)
(***************************************************************************)
InitEcho ==
    /\ lastAIResponseRef \in EchoTexts
    /\ echoArg \in EchoTexts
    /\ MountedRest
    /\ limits = Limits(0, 0, 0, 0, 0, 0, 0)

\* one call isSimilarToLastResponse(echoArg)
CallIsSimilar ==
    /\ echoResult = << >>
    /\ echoResult' = <<isSimilarToLastResponse(echoArg, lastAIResponseRef)>>
    /\ UNCHANGED <<tts, page, recog, history, server, echoArg, limits>>

NextEcho == CallIsSimilar

SpecEcho == InitEcho /\ [][NextEcho]_vars

(***************************************************************************)
(* What the specification says of the echo guard, stated without the       *)
(* guard's own pipeline.                                                   *)
(***************************************************************************)
\* the words of a text: the maximal runs, between white space, of its
\* lower-cased word characters (other characters are dropped where they stand)
RECURSIVE WordsOf(_, _)
WordsOf(text, word) ==
    IF text = << >> THEN (IF word = << >> THEN << >> ELSE <<word>>)
    ELSE IF text[1] \in SpaceChars
         THEN (IF word = << >> THEN << >> ELSE <<word>>) \o WordsOf(Tail(text), << >>)
         ELSE IF text[1] \in WordChars
              THEN WordsOf(Tail(text), Append(word, LowerChar(text[1])))
              ELSE WordsOf(Tail(text), word)

\* the words joined by single blanks
RECURSIVE JoinWords(_)
JoinWords(ws) ==
    IF ws = << >> THEN << >>
    ELSE IF Len(ws) = 1 THEN ws[1]
         ELSE ws[1] \o <<" ">> \o JoinWords(Tail(ws))

Normalized(text) == JoinWords(WordsOf(text, << >>))

\* t occurs in s: s = u \o t \o v for some u and v
Contains(s, t) ==
    \E n \in 0..Len(s) : \E m \in n..Len(s) :
        [i \in 1..(m - n) |-> s[n + i]] = t

\* s and t share a run of k characters
CommonRun(s, t, k) ==
    \E i \in 0..(Len(s) - k) : \E j \in 0..(Len(t) - k) :
        \A d \in 1..k : s[i + d] = t[j + d]

EchoCalled == echoResult # << >>

EchoAnswer == echoResult[1]

\* C8 as stated: for all texts A, isEcho(A, A) = true, the empty text included
C8_SelfEchoEveryText ==
    (EchoCalled /\ echoArg = lastAIResponseRef) => EchoAnswer = TRUE

\* C8, amended: for every non-empty text A, isEcho(A, A) = true (texts that
\* normalize to the empty string included); isEcho of the empty text with
\* itself is false
C8_SelfEchoNonEmpty ==
    (EchoCalled /\ echoArg = lastAIResponseRef) =>
        (EchoAnswer = (lastAIResponseRef # << >>))

\* C8 witness: a non-empty text that normalizes to the empty string was
\* compared with itself
C8_Witness ==
    /\ EchoCalled
    /\ echoArg = lastAIResponseRef
    /\ echoArg # << >>
    /\ Normalized(echoArg) = << >>
    /\ EchoAnswer = TRUE

\* C9 as stated: texts whose normalized forms share no run of more than
\* EchoMinLen characters are never an echo of each other
C9_NoOverlapNoEcho ==
    (EchoCalled /\ ~CommonRun(Normalized(echoArg), Normalized(lastAIResponseRef),
                              EchoMinLen + 1))
        => EchoAnswer = FALSE

\* C9, amended: texts whose normalized forms are both longer than EchoMinLen
\* characters and share no run of more than EchoMinLen characters are never
\* an echo of each other
C9_LongNoOverlapNoEcho ==
    (/\ EchoCalled
     /\ Len(Normalized(echoArg)) > EchoMinLen
     /\ Len(Normalized(lastAIResponseRef)) > EchoMinLen
     /\ ~CommonRun(Normalized(echoArg), Normalized(lastAIResponseRef), EchoMinLen + 1))
        => EchoAnswer = FALSE

\* C9 witness: two long texts sharing a run of exactly EchoMinLen characters
\* were compared
C9_Witness ==
    /\ EchoCalled
    /\ Len(Normalized(echoArg)) > EchoMinLen
    /\ Len(Normalized(lastAIResponseRef)) > EchoMinLen
    /\ CommonRun(Normalized(echoArg), Normalized(lastAIResponseRef), EchoMinLen)
    /\ ~CommonRun(Normalized(echoArg), Normalized(lastAIResponseRef), EchoMinLen + 1)
    /\ EchoAnswer = FALSE

\* the three conditions of the specification on normalized texts
EchoRule(candidate, lastReply) ==
    \/ Contains(Normalized(lastReply), Normalized(candidate))
    \/ Contains(Normalized(candidate), Normalized(lastReply))
    \/ /\ Len(Normalized(candidate)) > EchoMinLen
       /\ Len(Normalized(lastReply)) >= Min(EchoPrefixLen, Len(Normalized(candidate)))
       /\ \A i \in 1..Min(EchoPrefixLen, Len(Normalized(candidate))) :
              Normalized(lastReply)[i] = Normalized(candidate)[i]

\* C10 as stated: isEcho is true exactly when one of the three conditions
\* holds of the normalized texts
C10_EchoIffRule ==
    EchoCalled => (EchoAnswer = EchoRule(echoArg, lastAIResponseRef))

\* C10, amended: with a non-empty last reply isEcho is true exactly when one
\* of the three conditions holds of the normalized texts; with an empty last
\* reply (none received yet) it is false.  The call changes no state.
C10_EchoIffRuleAndReply ==
    EchoCalled =>
        (EchoAnswer = (lastAIResponseRef # << >> /\ EchoRule(echoArg, lastAIResponseRef)))

\* C10 witness: an echo by the prefix condition alone
C10_Witness ==
    /\ EchoCalled
    /\ EchoAnswer = TRUE
    /\ ~Contains(Normalized(lastAIResponseRef), Normalized(echoArg))
    /\ ~Contains(Normalized(echoArg), Normalized(lastAIResponseRef))

(***************************************************************************)
(* Turn taking: synthesis, cooldown and the recognition session.           *)
(***************************************************************************)
\* the platform object of the hook is capturing
Capturing == recognitionRef = "listening"

\* C1 as stated: while synthesis is active (isTTSPlaying) recognition is not in
\* the Listening state, and no start or restart of capture happens until
\* synthesis is over
C1_NoListeningWhileSynthesis ==
    [][isPlaying =>
          /\ ~Capturing'
          /\ starts' = starts
          /\ isListening' => isListening]_vars

\* synthesis ended and the 1200 ms timer of the cooldown has not fired
InCooldown == suspended /\ cooldownTimer /\ ~isPlaying

\* C2 as stated: between the end of synthesis and the firing of the cooldown
\* timer the suspended flag stays true and no start() puts the session into
\* Listening
C2_NoResumeInCooldown ==
    [][InCooldown =>
          /\ suspended' \/ ~cooldownTimer'
          /\ starts' = starts
          /\ Capturing' => Capturing]_vars

\* the user asked for continuous listening and nothing but the suspension
\* stands in its way
WantsListening ==
    /\ micOn
    /\ isListeningEnabled
    /\ lastError = "null"
    /\ visibility = "visible"

\* recognition is capturing or something in flight will make it capture: a
\* start() under way, an armed restart timer, an event of an earlier object
Resuming ==
    \/ recognitionRef \in {"starting", "listening"}
    \/ restartTimeoutRef
    \/ visTimers > 0
    \/ detached # << >>

\* C3 as stated, on the step at which the cooldown elapses: with continuous
\* mode still enabled and no new synthesis, the suspension is lifted and
\* recognition returns to Listening within one scheduling step
C3_ResumesAfterCooldown ==
    [][(InCooldown /\ WantsListening /\ ~suspended' /\ ~isPlaying' /\ WantsListening')
          => Resuming']_vars

\* C4 as stated: after speak is called twice in quick succession at most one
\* stream is audible at any time
C4_OneAudibleStream ==
    Cardinality(Audible(calls)) <= 1

(***************************************************************************)
(* What the recognition layer forwards.                                    *)
(***************************************************************************)
\* confidence below 0.6 or trimmed length of 3 characters or less
Unfit(text, conf) == conf < 6 \/ Len(Trim(text)) <= 3

VoiceSubmits == SelectSeq(mutations, LAMBDA m : m.inputType = "voice")

\* C5: a transcript whose confidence is below 0.6 or whose trimmed length is 3
\* or less is never forwarded: no callback of the page receives it and no voice
\* message is submitted with it, final or interim
C5_UnfitNeverForwarded ==
    /\ \A i \in 1..Len(delivered) :
          ~Unfit(delivered[i].transcript, delivered[i].confidence)
    /\ \A r \in 1..Len(results) : \A k \in 1..Len(VoiceSubmits) :
          Unfit(FinalTranscript(results[r].batch) \o InterimTranscript(results[r].batch),
                FinalConfidence(results[r].batch))
             => VoiceSubmits[k].message
                   # FinalTranscript(results[r].batch) \o InterimTranscript(results[r].batch)

\* C5 witness: onresult handled a final result of confidence below 0.6 or of
\* trimmed length 3 or less, and nothing was forwarded
C5_Witness ==
    /\ \E r \in 1..Len(results) :
          /\ FinalTranscript(results[r].batch) # << >>
          /\ Unfit(FinalTranscript(results[r].batch), FinalConfidence(results[r].batch))
    /\ transcript # << >>
    /\ delivered = << >>
    /\ VoiceSubmits = << >>

\* a result event handled while not suspended whose final transcript has a
\* trimmed length above 3 and a confidence of 0.6 or more
Fit(r) ==
    /\ ~r.suspended
    /\ ~Unfit(FinalTranscript(r.batch), FinalConfidence(r.batch))

\* C6 as stated: when recognition is not suspended, every final transcript of
\* trimmed length above 3 and confidence of 0.6 or more is emitted to the
\* controller exactly once
C6_FitEmittedOnce ==
    \A r \in 1..Len(results) :
        Fit(results[r]) =>
            Cardinality({i \in 1..Len(delivered) :
                            delivered[i].transcript = FinalTranscript(results[r].batch)}) = 1

(***************************************************************************)
(* What the page does with a forwarded utterance.                          *)
(***************************************************************************)
\* isEcho of the utterance against the last reply of its time: one of the
\* three conditions, against a reply there is
IsEcho(entry) == entry.last # << >> /\ EchoRule(entry.command, entry.last)

\* the forwarded utterances that are not blank and are not an echo, in order
RECURSIVE Submittable(_)
Submittable(log) ==
    IF log = << >> THEN << >>
    ELSE (IF Trim(log[1].command) # << >> /\ ~IsEcho(log[1])
          THEN <<log[1].command>> ELSE << >>)
         \o Submittable(Tail(log))

\* C7: an utterance that is an echo of the last reply is never submitted, and
\* every forwarded utterance that is not blank and not an echo is submitted
\* exactly once, with input modality voice and unaltered: the voice
\* submissions are, in order, the forwarded utterances that are neither
\* blank nor an echo, and none of them is in an error state for a discard
C7_VoiceSubmitsAreNonEchoes ==
    /\ [k \in 1..Len(VoiceSubmits) |-> VoiceSubmits[k].message] = Submittable(voiceLog)
    /\ \A k \in 1..Len(mutations) :
          mutations[k].inputType = "text" => mutations[k].message \in {Trim(m) : m \in Messages}

\* C7 witness: two utterances were forwarded after a reply, one an echo of it
\* and one not; the one that is not is the only voice submission
C7_Witness ==
    /\ Len(voiceLog) = 2
    /\ \E i \in 1..2 : IsEcho(voiceLog[i])
    /\ \E i \in 1..2 : Trim(voiceLog[i].command) # << >> /\ ~IsEcho(voiceLog[i])
    /\ Len(VoiceSubmits) = 1

(***************************************************************************)
(* The synthesis dispatcher: fallback and failure.                         *)
(***************************************************************************)
\* the fallback synthesizer is speaking the text of some speak call
FallbackSpeaking == \E i \in 1..Len(calls) : calls[i].utterance = "speaking"

\* C11 as stated: when the primary synthesis call fails the fallback
\* synthesizer speaks, and the started signal (isPlaying = true) holds
\* throughout the fallback playback
C11_PlayingThroughoutFallback ==
    FallbackSpeaking => isPlaying

\* on this step the fallback of call i fails, after its primary did
BothFail(i) ==
    /\ i \in 1..Len(calls)
    /\ calls[i].phase # "done"
    /\ calls[i].utterance # "failed"
    /\ calls'[i].utterance = "failed"

\* what the failure of both providers leaves: ended, no handle held, the
\* attempt over, no other attempt made
EndedAndReleased(i) ==
    /\ ~isPlaying'
    /\ currentAudio' = 0
    /\ currentUtterance' = 0
    /\ calls'[i].phase = "done"
    /\ calls'[i].audio # "playing"
    /\ Len(calls') = Len(calls)

Fails(k) ==
    /\ k \in 1..Len(mutations)
    /\ mutations[k].status = "pending"
    /\ mutations'[k].status = "error"

\* on this step the submission k gets its reply
Succeeds(k) ==
    /\ k \in 1..Len(mutations)
    /\ mutations[k].status = "pending"
    /\ mutations'[k].status = "success"

\* C13: on a failed submission the last assistant reply is left unchanged,
\* speak is not invoked, the error is surfaced (the submission ends in the
\* error state, its handler has run) and the submission is not retried: no
\* submission is added and no other one changes
C13_FailureLeavesReplyAndSilence ==
    [][\A k \in 1..Len(mutations) :
          Fails(k) => /\ lastAIResponseRef' = lastAIResponseRef
                      /\ calls' = calls
                      /\ isPlaying' = isPlaying
                      /\ mutations' = [mutations EXCEPT ![k].status = "error"]]_vars

\* C13 witness: after a reply was received and spoken, a later submission
\* failed and the last reply is still that reply
C13_Witness ==
    /\ Len(mutations) = 2
    /\ mutations[1].status = "success"
    /\ mutations[2].status = "error"
    /\ lastAIResponseRef = mutations[1].reply
    /\ Len(calls) = 1

\* C14: on every successful reply the last assistant reply becomes the text of
\* that reply, and speak is invoked, once, if and only if TTS is enabled at
\* that moment
C14_ReplyStoredAndSpokenIffEnabled ==
    [][\A k \in 1..Len(mutations) :
          Succeeds(k) => /\ lastAIResponseRef' = mutations'[k].reply
                         /\ mutations'[k].reply \in Replies
                         /\ isTTSEnabled => /\ Len(calls') = Len(calls) + 1
                                            /\ calls'[Len(calls')].phase = "gen"
                                            /\ isPlaying'
                         /\ ~isTTSEnabled => calls' = calls]_vars

\* C14 witness: a first reply came with TTS disabled and was not spoken, a
\* second, different one came with TTS enabled and was; the last reply is the
\* second
C14_Witness ==
    /\ Len(mutations) = 2
    /\ mutations[1].status = "success"
    /\ mutations[2].status = "success"
    /\ mutations[1].reply # mutations[2].reply
    /\ lastAIResponseRef = mutations[2].reply
    /\ Len(calls) = 1
    /\ isTTSEnabled

(***************************************************************************)
(* The recognition session: start, end, error, restart.                    *)
(***************************************************************************)
\* on this step the user turns to the microphone and startListening is called
StartRequested == ~micOn /\ micOn'

\* the platform object of the hook was asked to start and has not ended
StartingOrListening == recognitionRef \in {"starting", "listening"}

\* C15 as stated: startListening called while the session is Starting or
\* Listening is a no-op: the capture under way stays the one capture, no state
\* changes and no error is surfaced
C15_StartIsNoOpWhenActive ==
    [][(StartRequested /\ StartingOrListening)
          => /\ recognitionRef' = recognitionRef
             /\ detached' = detached
             /\ starts' = starts
             /\ isListening' = isListening
             /\ lastError' = lastError]_vars

\* on this step an end event is handled and leaves a restart timer armed
RestartScheduled == ~restartTimeoutRef /\ restartTimeoutRef'

\* C16 as stated: a recognition ended event leaves the session Idle
\* (isListening = false) and schedules a restart only if continuous mode is
\* enabled and the session is not suspended
C16_RestartOnlyIfContinuousAndNotSuspended ==
    [][RestartScheduled => /\ ~isListening'
                           /\ isListeningEnabled
                           /\ ~suspended]_vars

\* on this step a session that had started ends, without an error on the step
\* and with none recorded but no-speech
SessionEnds ==
    /\ isListening
    /\ ~isListening'
    /\ lastError' = lastError
    /\ lastError \in {"null", "no-speech"}

\* C17 as stated, on the end event: with continuous mode enabled, the session
\* not suspended, the page visible and the user not having stopped, the end of
\* a session is followed by a start request: when the event is handled a
\* restart is pending or a start is under way
C17_EndIsFollowedByRestart ==
    [][(SessionEnds /\ ~suspended /\ ~suspended' /\ WantsListening')
          => Resuming']_vars

\* C18 as stated: an error of kind no-speech never sets the error the page
\* shows (lastError stays unset)
C18_NoSpeechSetsNoError ==
    lastError # "no-speech"

\* the platform objects that reported an error and have not ended
Errored ==
    (IF recognitionRef = "errored" THEN 1 ELSE 0)
    + Cardinality({k \in 1..Len(detached) : detached[k].phase = "errored"})

\* on this step an error event is handled
ErrorHandled == Errored' > Errored

\* on this step start() is called and accepted
StartAccepted == starts' > starts

\* how a step can have called start(): startListening, the restart timer of
\* onend firing, the timer of handleVisibilityChange firing
ByStartListening == isListeningEnabled /\ ~isListening /\ micOn' /\ lastError' = "null"

ByRestartTimer == restartTimeoutRef /\ ~restartTimeoutRef'

ByVisibilityTimer == visTimers' = visTimers - 1

\* handling an error event neither calls start() nor schedules anything
ErrorPathIsQuiet ==
    ErrorHandled => /\ ~StartAccepted
                    /\ ~restartTimeoutRef'
                    /\ visTimers' = visTimers
                    /\ \/ recognitionRef' = recognitionRef
                       \/ recognitionRef' \notin {"starting", "listening"}

Suspends == ~suspended /\ suspended'

\* C20 as stated: when suspended becomes true every pending timer that would
\* restart recognition is cancelled and the session leaves Listening: no
\* restart is pending and no capture is under way
C20_SuspendCancelsRestartAndStops ==
    [][Suspends => /\ ~restartTimeoutRef'
                   /\ visTimers' = 0
                   /\ recognitionRef' \notin {"starting", "listening"}]_vars

(***************************************************************************)
(* The end of the suspension.                                              *)
(***************************************************************************)
\* on this step the page sets suspended to false
Unsuspends == suspended /\ ~suspended'

\* C21 as stated: the change of suspended from true to false issues no
\* start() call and leaves the recognition state unchanged: the platform
\* object, what it is doing, and isListening are what they were
C21_UnsuspendLeavesRecognition ==
    [][Unsuspends => /\ starts' = starts
                     /\ recognitionRef' = recognitionRef
                     /\ detached' = detached
                     /\ isListening' = isListening]_vars

(***************************************************************************)
(* The synthesis dispatcher: stop.                                         *)
(***************************************************************************)
\* on this step stop() is called
StopCalled == Len(stopLog') = Len(stopLog) + 1

\* nothing is held and nothing is announced as playing
NoPlayback == currentAudio = 0 /\ currentUtterance = 0 /\ ~isPlaying

\* the state a stop() call and the render after it make of s
Stopped(s) == Render(s, StopCall(s))

\* C22: stop() leaves no handle held and isPlaying false; called with no
\* current audio or utterance it changes no handle, and called with no
\* playback active it changes nothing at all; a second stop() right after the
\* first changes nothing
C22_StopIsIdempotent ==
    [][StopCalled =>
          /\ currentAudio' = 0 /\ currentUtterance' = 0 /\ ~isPlaying'
          /\ (currentAudio = 0 /\ currentUtterance = 0) => calls' = calls
          /\ NoPlayback => /\ UNCHANGED <<tts, page, recog, echo, micOn, voiceLog>>
          /\ Stopped(State') = State']_vars

\* C22 witness: stop() was called during playback and again right after, when
\* the first call had left nothing to stop
C22_Witness ==
    /\ Len(stopLog) = 2
    /\ stopLog[1].active
    /\ ~stopLog[2].active
    /\ \E i \in 1..Len(calls) : calls[i].audio = "paused"
    /\ NoPlayback

(***************************************************************************)
(* The recognition session: the end of continuous mode.                    *)
(***************************************************************************)
\* on this step continuous mode is disabled
DisablesContinuous == isListeningEnabled /\ ~isListeningEnabled'

\* no platform object is capturing or about to
NoCapture ==
    /\ recognitionRef \notin {"starting", "listening"}
    /\ \A k \in 1..Len(detached) : detached[k].phase \notin {"starting", "listening"}

\* C23: disabling continuous mode while the session is Listening stops capture
\* on that very step: every platform object has been told to stop and no
\* restart is pending, whether or not the session has ended
C23_DisableStopsAtOnce ==
    [][(DisablesContinuous /\ isListening) => /\ NoCapture'
                                              /\ ~restartTimeoutRef']_vars

\* C23 witness: continuous mode was disabled while a second platform object
\* was capturing; that object has been stopped and has not ended
C23_Witness ==
    /\ ~isListeningEnabled
    /\ isListening
    /\ starts = 2
    /\ recognitionRef = "idle"
    /\ Len(detached) = 2
    /\ detached[2].phase = "stoppingL"
    /\ detached[2].continuous
    /\ ~restartTimeoutRef

(***************************************************************************)
(* The recognition session without the capability.                         *)
(***************************************************************************)
\* C24: when the recognition capability is unavailable it stays unavailable;
\* no platform object is ever made, no start() is ever called or scheduled,
\* isListening never becomes true and no error is set; startListening and
\* stopListening change nothing of the session
C24_UnsupportedIsPermanent ==
    /\ [](~isSupported => /\ recognitionRef = "null"
                          /\ detached = << >>
                          /\ starts = 0
                          /\ ~restartTimeoutRef
                          /\ visTimers = 0
                          /\ ~isListening
                          /\ lastError = "null")
    /\ [][/\ isSupported' = isSupported
          /\ ~isSupported => UNCHANGED <<isListening, transcript, confidence, lastError,
                                         recognitionRef, detached, restartTimeoutRef,
                                         visTimers, starts, results, delivered>>]_vars

\* C24 witness: without the capability, continuous mode was enabled and
\* startListening was called
C24_Witness ==
    /\ ~isSupported
    /\ isListeningEnabled
    /\ micOn
    /\ recognitionRef = "null"

(***************************************************************************)
(* The platform objects of the session.                                    *)
(***************************************************************************)
\* on this step the end event of a torn-down object is handled: the object
\* leaves detached (and the render, if there is one, may add the current one)
TornDownEnds ==
    \E k \in 1..Len(detached) :
        \/ detached' = RemoveAt(detached, k)
        \/ /\ Len(detached') = Len(detached)
           /\ SubSeq(detached', 1, Len(detached) - 1) = RemoveAt(detached, k)
           /\ recognitionRef # "idle"
           /\ recognitionRef' = "idle"

\* C25 as stated: once the continuous flag is changed the previous platform
\* object is torn down, and no event handler or timer of a torn-down object
\* can afterwards start capture: handling its end event leaves no restart
\* timer armed
C25_TornDownStartsNothing ==
    [][TornDownEnds => ~restartTimeoutRef']_vars

\* some platform object is capturing audio
CaptureActive ==
    \/ recognitionRef = "listening"
    \/ \E k \in 1..Len(detached) : detached[k].phase = "listening"

\* C26: audio capture is physically active only in Listening: whenever a
\* platform object is capturing, isListening is true (and the session is in
\* none of the other states: no error is recorded, the object is the current
\* one)
C26_CaptureOnlyWhenListening ==
    CaptureActive => /\ isListening
                     /\ lastError = "null"
                     /\ recognitionRef = "listening"

\* C26 witness: a platform object is capturing
C26_Witness ==
    /\ CaptureActive
    /\ isListening
    /\ starts = 2

(***************************************************************************)
(* The suspension and what is heard.                                       *)
(***************************************************************************)
\* C27 as stated: in every state in which synthesized audio (an audio element
\* of the primary provider or an utterance of the fallback) is audibly
\* playing, isPlaying is true and the suspension is active
C27_SuspendedWhileAudible ==
    Audible(calls) # {} => isPlaying /\ suspended

(***************************************************************************)
(* The synthesis dispatcher: a request that completes after stop.          *)
(***************************************************************************)
\* stop() was called while the speak call i was awaiting generateSpeech
StoppedWhilePending(i) ==
    \E k \in 1..Len(stopLog) : i \in stopLog[k].pending

\* C28 as stated: if stop() is called while the primary synthesis request of
\* a speak call is pending, then when the request completes no playback is
\* started for that call, by the primary or by the fallback, and (no later
\* speak call made) isPlaying stays false
C28_StoppedRequestNeverPlays ==
    \A i \in 1..Len(calls) :
        StoppedWhilePending(i) =>
            /\ calls[i].audio \notin {"starting", "playing"}
            /\ calls[i].utterance \notin {"queued", "speaking"}
            /\ i = Len(calls) => ~isPlaying

(***************************************************************************)
(* The synthesis dispatcher: every started is followed by ended.           *)
(***************************************************************************)
\* C29: with every pending request and every playback completing or failing
\* and the cooldown timer firing, after any speak and stop calls isPlaying
\* returns to false and the suspension is lifted; isPlaying becomes true only
\* by a speak call
C29_StartedLeadsToEnded ==
    /\ ((isPlaying \/ suspended) ~> (~isPlaying /\ ~suspended))
    /\ [][(~isPlaying /\ isPlaying') => Len(calls') = Len(calls) + 1]_vars

\* C29 witness: after two speak calls and a stop call every request and
\* playback is over, one playback having run to its end; isPlaying is false
\* and the suspension is lifted
C29_Witness ==
    /\ Len(calls) = 2
    /\ Len(stopLog) = 1
    /\ \A i \in 1..2 : calls[i].phase = "done"
    /\ Audible(calls) = {}
    /\ \E i \in 1..2 : calls[i].audio = "ended"
    /\ ~isPlaying
    /\ ~suspended

(***************************************************************************)
(* What onresult does with interim segments.                               *)
(***************************************************************************)
\* the segments of a result event that are final, and those that are not
FinalParts(batch) == SelectSeq(batch, LAMBDA r : r.isFinal)

InterimParts(batch) == SelectSeq(batch, LAMBDA r : ~r.isFinal)

RECURSIVE Joined(_)
Joined(parts) ==
    IF parts = << >> THEN << >> ELSE parts[1].transcript \o Joined(Tail(parts))

\* onresult handles the result event batch on this step
Handles(batch) ==
    /\ Len(results') = Len(results) + 1
    /\ results'[Len(results')].batch = batch

CurrentEnds ==
    /\ recognitionRef \in {"listening", "stoppingS", "stoppingL", "errored"}
    /\ recognitionRef' = "idle"
    /\ detached' = detached

\* on this step an end event is handled
EndHandled == CurrentEnds \/ TornDownEnds

\* the final text of a result event passes the forwarding rule with the
\* confidence of its last final segment
FitAtEnd(batch) ==
    /\ FinalParts(batch) # << >>
    /\ ~Unfit(Joined(FinalParts(batch)),
              FinalParts(batch)[Len(FinalParts(batch))].confidence)

\* C31 as stated: final text that was not forwarded is held and flushed on
\* the end event under the threshold and length rule, with the confidence of
\* the last final segment; after every end event nothing is held.  Here: when
\* the end event of the one session of the run is handled with the suspension
\* lifted, the final text received under suspension that passes the rule has
\* been given to the controller, and the transcript is empty
C31_HeldTextFlushedAtEnd ==
    [][EndHandled =>
          /\ transcript' = << >>
          /\ (starts = 1 /\ ~suspended) =>
                \A r \in 1..Len(results) :
                    (results[r].suspended /\ FitAtEnd(results[r].batch)) =>
                        \E i \in 1..Len(delivered') :
                            delivered'[i].transcript = Joined(FinalParts(results[r].batch))]_vars

(***************************************************************************)
(* The confidence of a result event.                                       *)
(***************************************************************************)
\* the maximum confidence among the final segments of a result event, 0 when
\* it has none
MaxFinalConfidence(batch) ==
    LET cs == {batch[k].confidence : k \in {j \in 1..Len(batch) : batch[j].isFinal}}
    IN  IF cs = {} THEN 0 ELSE CHOOSE c \in cs : \A e \in cs : c >= e

\* C32: for every result event, the confidence recorded, and the confidence
\* of whatever the event gives to a callback of the page, is the maximum
\* confidence among the final segments of the event, and 0 when it has none
C32_ConfidenceIsMaxOfFinals ==
    [][Len(results') = Len(results) + 1 =>
          LET b == results'[Len(results')].batch
          IN  /\ confidence' = MaxFinalConfidence(b)
              /\ \A i \in (Len(delivered) + 1)..Len(delivered') :
                    delivered'[i].confidence = MaxFinalConfidence(b)]_vars

\* C32 witness: a result event of a final segment of confidence 0.5 followed
\* by an interim segment of confidence 0.9 was handled: 0.5 is recorded
C32_Witness ==
    /\ Len(results) = 1
    /\ results[1].batch = <<[transcript |-> <<"a", "b">>, confidence |-> 5, isFinal |-> TRUE],
                            [transcript |-> <<"a", "b">>, confidence |-> 9, isFinal |-> FALSE]>>
    /\ confidence = 5
    /\ transcript = <<"a", "b", "a", "b">>

(***************************************************************************)
(* Failures that are caught.                                               *)
(***************************************************************************)
\* on this step the restart timer fires and start() throws: the current
\* object is starting or capturing and stays as it is
RestartThrows ==
    /\ restartTimeoutRef
    /\ ~restartTimeoutRef'
    /\ visibility = "visible"
    /\ recognitionRef \in {"starting", "listening"}
    /\ recognitionRef' = recognitionRef
    /\ detached' = detached

\* on this step startListening is called with an error recorded, and start()
\* throws: the current object is starting already
StartListeningThrows ==
    /\ isListeningEnabled
    /\ ~isListening
    /\ ~isListening'
    /\ recognitionRef = "starting"
    /\ lastError # "null"
    /\ lastError' = "null"
    /\ micOn'

\* every speak call that has returned
Returned == {i \in 1..Len(calls) : calls[i].phase = "done"}

\* C33 as stated: no failure leaves a handler uncaught, the promise of speak
\* resolves whatever the primary request, the playback and the fallback do,
\* and a start() that throws in startListening or in the restart timer is
\* caught and recorded in lastError
C33_FailuresBecomeState ==
    /\ [](uncaught = {})
    /\ [][(RestartThrows \/ StartListeningThrows)
             => lastError' = "already started"]_vars

\* C33, amended: no failure leaves a handler uncaught and the promise of
\* speak resolves whatever the primary request, the playback and the fallback
\* do; a start() that throws in startListening or in the restart timer is
\* caught and ignored: no start is made, the restart timer leaves lastError
\* and everything else as they were, and startListening leaves lastError null
C33_FailuresAreCaught ==
    /\ [](uncaught = {})
    /\ [][/\ RestartThrows =>
               /\ starts' = starts
               /\ UNCHANGED <<tts, page, echo, history, isListening, transcript, confidence,
                              lastError, visibility, visTimers, results, delivered,
                              wakeCalls>>
          /\ StartListeningThrows =>
               /\ starts' = starts
               /\ uncaught' = {}]_vars

\* C33 witness: the primary request and the fallback of a speak call both
\* failed and the call has returned; recognition was started twice, an error
\* of the platform is recorded, and nothing is uncaught
C33_Witness ==
    /\ \E i \in Returned : calls[i].utterance = "failed"
    /\ starts = 2
    /\ lastError = "not-allowed"
    /\ uncaught = {}

(***************************************************************************)
(* The cooldown timer and a synthesis that starts within the cooldown.     *)
(***************************************************************************)
\* on this step isTTSPlaying becomes true, and on this one false
PlayingBegins == ~isPlaying /\ isPlaying'

PlayingEnds == isPlaying /\ ~isPlaying'

\* C34: a synthesis that starts during the cooldown cancels the pending
\* cooldown timer and suspended stays true; a cooldown timer is pending only
\* while isTTSPlaying is false, armed when it last became false, and
\* suspended becomes false only by the firing of that timer: no timer of an
\* earlier playback lifts the suspension while isTTSPlaying is true
C34_StaleCooldownNeverLifts ==
    /\ [](cooldownTimer => ~isPlaying)
    /\ [][/\ PlayingBegins => (~cooldownTimer' /\ suspended')
          /\ PlayingEnds => (cooldownTimer' /\ suspended' = suspended)
          /\ Unsuspends => (cooldownTimer /\ ~cooldownTimer' /\ ~isPlaying /\ ~isPlaying')
          /\ (~cooldownTimer /\ cooldownTimer') => PlayingEnds]_vars

\* C34 witness: the first playback has ended and a second synthesis has
\* begun: the cooldown timer is cancelled and the suspension holds
C34_Witness ==
    /\ Len(calls) = 2
    /\ calls[1].audio = "ended"
    /\ calls[2].phase = "gen"
    /\ isPlaying
    /\ suspended
    /\ ~cooldownTimer

(***************************************************************************)
(* The end event that follows a critical error.                            *)
(***************************************************************************)
\* C35 as stated: after an error event of a kind that is neither no-speech
\* nor aborted the end event that follows schedules no restart.  Here: when
\* the one session started so far has reported not-allowed and its end event
\* is handled, no restart timer is left armed
C35_NoRestartAfterCriticalError ==
    [][(EndHandled /\ starts = 1 /\ lastError = "not-allowed")
          => ~restartTimeoutRef']_vars

(***************************************************************************)
(* The manual stop.                                                        *)
(***************************************************************************)
\* on this step the user stops listening with the microphone button
StopRequested == micOn /\ ~micOn' /\ isListeningEnabled'

\* C36 as stated: after the user calls stopListening no restart timer is
\* pending and recognition does not return to Listening until startListening
\* is called again: the call leaves no restart timer, and while the user's
\* last word stays "stop" no timer is armed, no start() is accepted and
\* isListening does not become true
C36_ManualStopIsEffective ==
    [][/\ StopRequested => ~restartTimeoutRef'
       /\ (~micOn /\ ~micOn' /\ starts > 0) =>
             /\ ~restartTimeoutRef'
             /\ starts' = starts
             /\ isListening' => isListening]_vars

(***************************************************************************)
(* Continuous mode disabled.                                               *)
(***************************************************************************)
\* C37 as stated: with continuous mode disabled recognition is never started
\* automatically: no restart timer that an end handler of an earlier object
\* scheduled fires and calls start() on the current object
C37_NoAutomaticStartOnceDisabled ==
    [][(~isListeningEnabled /\ ~isListeningEnabled' /\ ByRestartTimer)
          => starts' = starts]_vars

(***************************************************************************)
(* One recognition session and what is said to it: the wake word, alone,   *)
(* before or after other words, or not at all, heard as an interim or as a *)
(* final result.                                                           *)
(***************************************************************************)
SpokenWords == {<<"S", "l", "a", "p", "y">>, <<"o", "k">>, <<"a">>}

MaxSpoken == 2

WakeEvents == 2

WakeStarts == 1

Utterances ==
    {JoinWords(ws) : ws \in UNION {[1..n -> SpokenWords] : n \in 1..MaxSpoken}}

WakeBatches ==
    {<<[transcript |-> t, confidence |-> 9, isFinal |-> f]>> :
        t \in Utterances, f \in BOOLEAN}

InitWakeWord ==
    /\ Mounted
    /\ limits = Limits(0, 0, WakeStarts, WakeEvents, 0, 0, 0)

NextWakeWord ==
    \/ ToggleListeningEnabled
    \/ StartListening
    \/ \E o \in 0..Len(detached) :
          \/ OnStart(o)
          \/ \E b \in WakeBatches : OnResult(o, b)
          \/ OnEnd(o)

SpecWakeWord == InitWakeWord /\ [][NextWakeWord]_vars

\* the text is a wake word and nothing else
OnlyWakeWord(text) ==
    \E k \in 1..Len(wakeWords) : Trim(ToLowerCase(text)) = wakeWords[k]

OneUtterance ==
    /\ results # << >>
    /\ \A r \in 1..(Len(results) - 1) :
          \A k \in 1..Len(results[r].batch) : ~results[r].batch[k].isFinal

MaxRequests == 2

MaxClock == 2

\* req.body: message absent, empty or a text; inputType absent, one of the
\* enum or another string
WebhookBodies ==
    [message : {"absent", << >>, <<"a", "b">>}, inputType : {"absent", "voice", "audio"}]

\* webhookRequestSchema.parse(req.body) does not throw
Parses(body) ==
    /\ body.message # "absent"
    /\ Len(body.message) >= 1
    /\ body.inputType \in {"absent", "text", "voice"}

\* what the upstream call comes to: a JSON reply with or without an output,
\* a reply that is not ok, one whose body is not JSON, or no reply at all
UpstreamOutcomes == {"output", "no output", "not ok", "not json", "network error"}

\* "Desculpe, não consegui processar sua mensagem."
Apology == <<"!">>

\* storage.createMessage: a fresh id, the time of the call, a new Map entry
createMessage(stored, insertMessage) ==
    Append(stored, [id |-> Len(stored) + 1,
                    content |-> insertMessage.content,
                    sender |-> insertMessage.sender,
                    inputType |-> insertMessage.inputType,
                    timestamp |-> now])

\* Array.prototype.sort by timestamp: stable, equal timestamps keep their order
RECURSIVE SortByTimestamp(_)
SortByTimestamp(q) ==
    IF q = << >> THEN << >>
    ELSE LET m == q[Len(q)]
             sorted == SortByTimestamp(SubSeq(q, 1, Len(q) - 1))
             before == SelectSeq(sorted, LAMBDA x : x.timestamp <= m.timestamp)
             after == SelectSeq(sorted, LAMBDA x : x.timestamp > m.timestamp)
         IN  before \o <<m>> \o after

\* storage.getAllMessages()
getAllMessages == SortByTimestamp(messages)

\* the handler that stores the user message only with the reply
PostWebhook_StoresLate(body) ==
    /\ Len(requests) < MaxRequests
    /\ requests' = Append(requests,
          IF Parses(body)
          THEN [body |-> body, pc |-> "fetching", status |-> 0,
                userMessage |-> 0, slappyMessage |-> 0]
          ELSE [body |-> body, pc |-> "done", status |-> 500,
                userMessage |-> 0, slappyMessage |-> 0])
    /\ UNCHANGED <<messages, now>>
    /\ UNCHANGED <<tts, page, recog, echo, history, limits>>

\* the handler up to its fetch: a body that does not parse is answered 500
\* from the catch block, another has its user message stored and the
\* upstream call made
PostWebhook(body) ==
    /\ Len(requests) < MaxRequests
    /\ IF Parses(body)
       THEN /\ messages' = createMessage(messages,
                  [content |-> body.message, sender |-> "user",
                   inputType |-> IF body.inputType = "absent" THEN "text"
                                 ELSE body.inputType])
            /\ requests' = Append(requests,
                  [body |-> body, pc |-> "fetching", status |-> 0,
                   userMessage |-> Len(messages) + 1, slappyMessage |-> 0])
       ELSE /\ messages' = messages
            /\ requests' = Append(requests,
                  [body |-> body, pc |-> "done", status |-> 500,
                   userMessage |-> 0, slappyMessage |-> 0])
    /\ now' = now
    /\ UNCHANGED <<tts, page, recog, echo, history, limits>>

\* the handler from the end of its fetch on
UpstreamSettles(r, outcome) ==
    /\ r \in 1..Len(requests)
    /\ requests[r].pc = "fetching"
    /\ IF outcome \in {"output", "no output"}
       THEN /\ messages' = createMessage(messages,
                  [content |-> IF outcome = "output" THEN <<"a">> ELSE Apology,
                   sender |-> "slapy", inputType |-> "text"])
            /\ requests' = [requests EXCEPT ![r].pc = "done", ![r].status = 200,
                                            ![r].slappyMessage = Len(messages) + 1]
       ELSE /\ messages' = messages
            /\ requests' = [requests EXCEPT ![r].pc = "done", ![r].status = 500]
    /\ now' = now
    /\ UNCHANGED <<tts, page, recog, echo, history, limits>>

\* time passes
Tick ==
    /\ now < MaxClock
    /\ now' = now + 1
    /\ UNCHANGED <<messages, requests>>
    /\ UNCHANGED <<tts, page, recog, echo, history, limits>>

InitWebhook ==
    /\ Mounted
    /\ limits = Limits(0, 0, 0, 0, 0, 0, 0)

NextWebhook ==
    \/ \E body \in WebhookBodies : PostWebhook(body)
    \/ \E r \in 1..Len(requests), outcome \in UpstreamOutcomes : UpstreamSettles(r, outcome)
    \/ Tick

SpecWebhook == InitWebhook /\ [][NextWebhook]_vars

\* the place of the message with this id in what getAllMessages returns
PlaceOf(id) == CHOOSE k \in 1..Len(getAllMessages) : getAllMessages[k].id = id

\* the stored messages of a sender
StoredFrom(sender) == {k \in 1..Len(messages) : messages[k].sender = sender}

\* C40: the user message of a request is stored when the upstream call is
\* made; a request answered 200 has stored one assistant message, after its
\* user message, and getAllMessages returns the two in that order; a body
\* that fails validation stores nothing; an upstream failure is answered 500,
\* stores no assistant message and leaves the user message stored
C40_WebhookStoresInOrder ==
    /\ [](\A r \in 1..Len(requests) :
            LET q == requests[r]
            IN  /\ Parses(q.body) =>
                     /\ q.userMessage \in StoredFrom("user")
                     /\ messages[q.userMessage].content = q.body.message
                /\ ~Parses(q.body) => (q.userMessage = 0 /\ q.slappyMessage = 0)
                /\ q.status = 200 =>
                     /\ q.slappyMessage \in StoredFrom("slapy")
                     /\ q.userMessage < q.slappyMessage
                     /\ PlaceOf(q.userMessage) < PlaceOf(q.slappyMessage)
                /\ (q.pc = "done" /\ q.status # 200) =>
                     (q.status = 500 /\ q.slappyMessage = 0))
    /\ [](Cardinality(StoredFrom("slapy"))
             = Cardinality({r \in 1..Len(requests) : requests[r].status = 200}))
    /\ [](Cardinality(StoredFrom("user"))
             = Cardinality({r \in 1..Len(requests) : Parses(requests[r].body)}))
    /\ [][\A k \in 1..Len(messages) : Len(messages') >= k /\ messages'[k] = messages[k]]_vars

\* one request failed validation, another was stored, its upstream call
\* failed and it was answered 500: only its user message is stored
C40_Witness ==
    /\ Len(requests) = 2
    /\ ~Parses(requests[1].body)
    /\ Parses(requests[2].body)
    /\ requests[2].pc = "done"
    /\ requests[2].status = 500
    /\ Len(messages) = 1
    /\ messages[1].sender = "user"

====
